---- MODULE Spec2Model ----
(***************************************************************************)
(* Model of the geminicli package (client.go): a client that runs the      *)
(* external "gemini" command as a child process, races its completion      *)
(* against a timer, classifies failures and sanitizes the captured output. *)
(*                                                                         *)
(* Text is modelled by TLA+ strings used as sequences of characters        *)
(* (Len, SubSeq, \o).  A Go error is modelled by its chain: the tuple of   *)
(* the Error() texts from the outermost error to the innermost cause, so   *)
(* that errors.Unwrap is Tail and the nil error is the empty tuple.        *)
(* Durations are whole seconds.                                            *)
(***************************************************************************)
EXTENDS Integers, Sequences, FiniteSets, TLC

(***************************************************************************)
(* Constants of client.go                                                  *)
(***************************************************************************)
GeminiCommand == "gemini"
GeminiPromptFlag == "-p"
GeminiModelFlag == "-m"
DefaultTimeout == 30
DefaultModel == "gemini-2.5-flash"
MaxRetries == 3

ErrEmptyPrompt == "prompt cannot be empty"
ErrCommandNotFound == "Gemini command not found in PATH"
ErrCommandFailed == "failed to execute Gemini command"
ErrCommandTimeout == "command timed out"
ErrCommandStart == "failed to start command"
ErrParseOutput == "failed to parse Gemini output"
ErrEmptyOutput == "empty output from Gemini command"
ErrAuthFailed == "authentication error: please check your Gemini API credentials"

(***************************************************************************)
(* Bounds of the model                                                     *)
(***************************************************************************)
\* how many calls are made one after the other on the same client
MaxSeqCalls == 2

(***************************************************************************)
(* Go library functions the code calls, on strings                         *)
(***************************************************************************)
\* the character at position i, "" beyond the end
CharAt(s, i) == IF 1 <= i /\ i <= Len(s) THEN SubSeq(s, i, i) ELSE ""

\* s[i-1:j] cut at the end of s
Slice(s, i, j) == SubSeq(s, i, IF j <= Len(s) THEN j ELSE Len(s))

\* strings.Contains
Contains(s, sub) ==
  \E i \in 0..(Len(s) - Len(sub)) : SubSeq(s, i + 1, i + Len(sub)) = sub

\* strings.HasPrefix
HasPrefix(s, p) == Len(p) <= Len(s) /\ SubSeq(s, 1, Len(p)) = p

UpperLetters == "ABCDEFGHIJKLMNOPQRSTUVWXYZ"
LowerLetters == "abcdefghijklmnopqrstuvwxyz"

ToLowerChar(c) ==
  LET I == {i \in 1..26 : CharAt(UpperLetters, i) = c}
  IN  IF I = {} THEN c ELSE CharAt(LowerLetters, CHOOSE i \in I : TRUE)

\* strings.ToLower (ASCII)
RECURSIVE ToLower(_)
ToLower(s) ==
  IF s = "" THEN "" ELSE ToLowerChar(CharAt(s, 1)) \o ToLower(SubSeq(s, 2, Len(s)))

\* unicode.IsSpace on the characters of the model's alphabet
IsSpace(c) == c \in {" ", "\t", "\n", "\r", "\f"}

RECURSIVE TrimLeft(_)
TrimLeft(s) ==
  IF s # "" /\ IsSpace(CharAt(s, 1)) THEN TrimLeft(SubSeq(s, 2, Len(s))) ELSE s

RECURSIVE TrimRight(_)
TrimRight(s) ==
  IF s # "" /\ IsSpace(CharAt(s, Len(s))) THEN TrimRight(SubSeq(s, 1, Len(s) - 1)) ELSE s

\* strings.TrimSpace
TrimSpace(s) == TrimRight(TrimLeft(s))

\* strings.Split(s, sep) for a one-character sep: always at least one element
RECURSIVE SplitOn(_, _)
SplitOn(s, sep) ==
  LET I == {i \in 1..Len(s) : CharAt(s, i) = sep}
  IN  IF I = {} THEN <<s>>
      ELSE LET k == CHOOSE i \in I : \A j \in I : i <= j
           IN  <<SubSeq(s, 1, k - 1)>> \o SplitOn(SubSeq(s, k + 1, Len(s)), sep)

\* strings.Join(elems, sep)
RECURSIVE JoinWith(_, _)
JoinWith(elems, sep) ==
  IF elems = <<>> THEN ""
  ELSE IF Len(elems) = 1 THEN elems[1]
  ELSE elems[1] \o sep \o JoinWith(Tail(elems), sep)

SplitLines(s) == SplitOn(s, "\n")

JoinLines(lines) == JoinWith(lines, "\n")

\* strconv.Itoa for n >= 0
RECURSIVE Itoa(_)
Itoa(n) ==
  IF n < 10 THEN CharAt("0123456789", n + 1)
  ELSE Itoa(n \div 10) \o CharAt("0123456789", (n % 10) + 1)

\* time.Duration.String for a duration of d whole seconds (the %v of line 308)
DurationString(d) ==
  LET u == IF d < 0 THEN 0 - d ELSE d
      h == u \div 3600
      m == (u \div 60) % 60
      s == u % 60
  IN  (IF d < 0 THEN "-" ELSE "")
        \o (IF h > 0 THEN Itoa(h) \o "h" ELSE "")
        \o (IF h > 0 \/ m > 0 THEN Itoa(m) \o "m" ELSE "")
        \o Itoa(s) \o "s"

(***************************************************************************)
(* Errors: the chain of Error() texts, outermost first                     *)
(***************************************************************************)
NoErr == <<>>

\* fmt.Errorf(msg) and fmt.Errorf("%s", msg): a new error without a cause
NewError(msg) == <<msg>>

\* fmt.Errorf("%s: %w", prefix, err)
WrapError(prefix, err) == <<prefix \o ": " \o err[1]>> \o err

\* err.Error()
ErrorText(err) == err[1]

\* errors.Unwrap
Unwrap(err) == Tail(err)

(***************************************************************************)
(* Authentication-error detection                                          *)
(***************************************************************************)
getAuthErrorKeywords ==
  << "authentication failed",
     "invalid api key",
     "permission denied",
     "unauthorized",
     "access denied" >>

\* containsAnyKeyword comparing the text as it is written
containsAnyKeyword_CaseSensitive(text, keywords) ==
  \E k \in 1..Len(keywords) : Contains(text, keywords[k])

containsAnyKeyword(text, keywords) ==
  LET lowerText == ToLower(text)
  IN  \E k \in 1..Len(keywords) : Contains(lowerText, keywords[k])

detectAuthError(output) == containsAnyKeyword(output, getAuthErrorKeywords)

(***************************************************************************)
(* Output sanitizer                                                        *)
(***************************************************************************)
filterPatterns ==
  << "Loaded cached credentials.",
     "Loading cached credentials",
     "Authenticating",
     "Authentication successful",
     "Connected to Gemini API",
     "Using cached token",
     "Token refreshed" >>

\* keepLine comparing the line with the filter phrases without regard to case
keepLine_FoldCase(line) ==
  LET trimmedLine == TrimSpace(line)
      shouldFilter == \E p \in 1..Len(filterPatterns) :
                        Contains(ToLower(trimmedLine), ToLower(filterPatterns[p]))
  IN  ~shouldFilter /\ trimmedLine # ""

\* the loop body's decision of lines 376-388: is the line kept?
keepLine(line) ==
  LET trimmedLine == TrimSpace(line)
      shouldFilter == \E p \in 1..Len(filterPatterns) : Contains(trimmedLine, filterPatterns[p])
  IN  ~shouldFilter /\ trimmedLine # ""

\* filterGeminiOutput keeping the trimmed text of each line
filterGeminiOutput_TrimmedLines(output) ==
  LET lines == SplitLines(output)
      filteredLines == SelectSeq(lines, keepLine)
  IN  TrimSpace(JoinLines([k \in 1..Len(filteredLines) |-> TrimSpace(filteredLines[k])]))

\* filterGeminiOutput without the TrimSpace of line 395
filterGeminiOutput_NoFinalTrim(output) ==
  LET lines == SplitLines(output)
      filteredLines == SelectSeq(lines, keepLine)
  IN  JoinLines(filteredLines)

filterGeminiOutput(output) ==
  LET lines == SplitLines(output)
      filteredLines == SelectSeq(lines, keepLine)
  IN  TrimSpace(JoinLines(filteredLines))

\* parseGeminiOutput telling the output with no content from the empty output
parseGeminiOutput_DistinctErrors(output) ==
  IF Len(output) = 0
  THEN [result |-> "", err |-> NewError(ErrEmptyOutput)]
  ELSE LET result == filterGeminiOutput(TrimSpace(output))
       IN  IF result = ""
           THEN [result |-> "", err |-> NewError("no content in Gemini output")]
           ELSE [result |-> result, err |-> NoErr]

\* parseGeminiOutput without the check of lines 324-326
parseGeminiOutput_NoEmptyCheck(output) ==
  IF Len(output) = 0
  THEN [result |-> "", err |-> NewError(ErrEmptyOutput)]
  ELSE [result |-> filterGeminiOutput(TrimSpace(output)), err |-> NoErr]

\* returns the pair (result, err)
parseGeminiOutput(output) ==
  IF Len(output) = 0
  THEN [result |-> "", err |-> NewError(ErrEmptyOutput)]
  ELSE LET result == filterGeminiOutput(TrimSpace(output))
       IN  IF result = ""
           THEN [result |-> "", err |-> NewError(ErrEmptyOutput)]
           ELSE [result |-> result, err |-> NoErr]

(***************************************************************************)
(* Command builders                                                        *)
(***************************************************************************)
buildGeminiCommand(prompt) == <<GeminiCommand, GeminiPromptFlag, prompt>>

\* buildGeminiCommandWithModel trimming the prompt
buildGeminiCommandWithModel_TrimmedPrompt(c, prompt) ==
  <<GeminiCommand, GeminiModelFlag, c.model, GeminiPromptFlag, TrimSpace(prompt)>>

buildGeminiCommandWithModel(c, prompt) ==
  <<GeminiCommand, GeminiModelFlag, c.model, GeminiPromptFlag, prompt>>

(***************************************************************************)
(* Path resolver                                                           *)
(***************************************************************************)
\* \w of the regular expression
IsWordChar(c) ==
  c # "" /\ Contains("0123456789ABCDEFGHIJKLMNOPQRSTUVWXYZ_abcdefghijklmnopqrstuvwxyz", c)

\* the class [\w\-\.\/]
IsPathChar(c) == IsWordChar(c) \/ c \in {"-", ".", "/"}

\* the extensions of the pattern's second alternative, in its order
pathExtensions ==
  << "txt", "md", "go", "js", "py", "json", "yaml", "yml", "xml", "html",
     "css", "sh", "conf", "cfg", "ini", "log", "out", "err", "csv", "tsv",
     "sql", "db", "lock", "mod", "sum", "env", "toml", "proto", "pb", "rs",
     "c", "cpp", "h", "hpp", "java", "kt", "php", "rb", "swift", "dart",
     "scala", "clj", "hs", "elm", "ml", "fs", "pl", "r", "m", "mm", "vue",
     "jsx", "tsx", "svelte", "astro", "wasm", "zip", "tar", "gz", "bz2",
     "xz", "7z", "rar", "pdf", "doc", "docx", "xls", "xlsx", "ppt", "pptx",
     "png", "jpg", "jpeg", "gif", "bmp", "svg", "webp", "ico", "mp3", "mp4",
     "avi", "mov", "wmv", "flv", "mkv", "webm", "wav", "ogg", "flac", "aac",
     "m4a", "ttf", "otf", "woff", "woff2", "eot" >>

\* how many characters from position p on are in [\w\-\.\/]
RECURSIVE PathRun(_, _)
PathRun(s, p) ==
  IF p <= Len(s) /\ IsPathChar(CharAt(s, p)) THEN 1 + PathRun(s, p + 1) ELSE 0

\* first alternative, (?:\./|\.\./)[\w\-\.\/]+, at position p: the position
\* after the match, or 0 when it does not match there
MatchDotPath(s, p) ==
  LET pre == IF Slice(s, p, p + 1) = "./" THEN 2
             ELSE IF Slice(s, p, p + 2) = "../" THEN 3
             ELSE 0
      run == PathRun(s, p + pre)
  IN  IF pre > 0 /\ run >= 1 THEN p + pre + run ELSE 0

\* \.(?:txt|md|...)\b at position q: the position after the match, or 0
MatchExtension(s, q) ==
  LET E == {e \in 1..Len(pathExtensions) :
              /\ Slice(s, q + 1, q + Len(pathExtensions[e])) = pathExtensions[e]
              /\ ~IsWordChar(CharAt(s, q + Len(pathExtensions[e]) + 1))}
  IN  IF q <= Len(s) /\ CharAt(s, q) = "." /\ E # {}
      THEN q + 1 + Len(pathExtensions[CHOOSE e \in E : \A f \in E : e <= f])
      ELSE 0

\* second alternative, [\w\-\.\/]*\.(?:...)\b, at position p: the greedy star
\* gives back characters until the rest matches
MatchBarePath(s, p) ==
  LET K == {k \in 0..PathRun(s, p) : MatchExtension(s, p + k) > 0}
  IN  IF K = {} THEN 0
      ELSE MatchExtension(s, p + (CHOOSE k \in K : \A j \in K : j <= k))

\* the whole pattern at position p: the first alternative is preferred
MatchPathPattern(s, p) ==
  IF MatchDotPath(s, p) > 0 THEN MatchDotPath(s, p) ELSE MatchBarePath(s, p)

\* filepath.IsAbs (Unix)
IsAbs(path) == HasPrefix(path, "/")

\* the element-by-element pass of filepath.Clean over the components left
RECURSIVE CleanComponents(_, _, _)
CleanComponents(comps, rooted, out) ==
  IF comps = <<>> THEN out
  ELSE LET c == Head(comps)
       IN  IF c = "" \/ c = "."
           THEN CleanComponents(Tail(comps), rooted, out)
           ELSE IF c = ".."
           THEN IF out # <<>> /\ out[Len(out)] # ".."
                THEN CleanComponents(Tail(comps), rooted, SubSeq(out, 1, Len(out) - 1))
                ELSE IF rooted
                THEN CleanComponents(Tail(comps), rooted, out)
                ELSE CleanComponents(Tail(comps), rooted, Append(out, ".."))
           ELSE CleanComponents(Tail(comps), rooted, Append(out, c))

\* filepath.Clean (Unix)
Clean(path) ==
  LET rooted == IsAbs(path)
      body == JoinWith(CleanComponents(SplitOn(path, "/"), rooted, <<>>), "/")
      res == (IF rooted THEN "/" ELSE "") \o body
  IN  IF res = "" THEN "." ELSE res

\* filepath.Join of two elements (Unix): empty elements are ignored
Join(a, b) ==
  IF a = "" /\ b = "" THEN ""
  ELSE IF a = "" THEN Clean(b)
  ELSE IF b = "" THEN Clean(a)
  ELSE Clean(a \o "/" \o b)

\* resolveMatch joining every match to the base directory
resolveMatch_JoinsAbsolute(matched, baseDir) ==
  LET match == TrimSpace(matched)
  IN  IF match = "" THEN match
      ELSE Clean(Join(baseDir, match))

\* the replacement function of lines 408-425
resolveMatch(matched, baseDir) ==
  LET match == TrimSpace(matched)
  IN  IF match = "" THEN match
      ELSE IF IsAbs(match) THEN match
      ELSE Clean(Join(baseDir, match))

\* regexp.ReplaceAllStringFunc from position p on: leftmost match first, then
\* on from the end of that match
RECURSIVE ReplaceFrom(_, _, _)
ReplaceFrom(s, p, baseDir) ==
  IF p > Len(s) THEN ""
  ELSE LET e == MatchPathPattern(s, p)
       IN  IF e > 0
           THEN resolveMatch(SubSeq(s, p, e - 1), baseDir) \o ReplaceFrom(s, e, baseDir)
           ELSE CharAt(s, p) \o ReplaceFrom(s, p + 1, baseDir)

\* resolveRelativePaths refusing the empty base directory
resolveRelativePaths_RequiresBase(prompt, baseDir) ==
  IF baseDir = ""
  THEN [prompt |-> prompt, err |-> NewError("base directory is empty")]
  ELSE [prompt |-> ReplaceFrom(prompt, 1, baseDir), err |-> NoErr]

\* resolveRelativePaths trimming the prompt it returns
resolveRelativePaths_TrimsPrompt(prompt, baseDir) ==
  [prompt |-> TrimSpace(ReplaceFrom(prompt, 1, baseDir)), err |-> NoErr]

\* returns the pair (prompt, err); err is always nil
resolveRelativePaths(prompt, baseDir) ==
  [prompt |-> ReplaceFrom(prompt, 1, baseDir), err |-> NoErr]

(***************************************************************************)
(* Client construction                                                     *)
(***************************************************************************)
\* the Config values the model constructs clients from (Timeout in seconds)
\* Logger: nil, or a Logger of the caller
ConfigLoggers == {"nil", "custom"}
ConfigTimeouts == {-1, 0, 90}
ConfigModels == {"", "gemini-2.5-pro"}
ConfigWorkingDirectories == {"", "/tmp"}

Configs ==
  [Logger : ConfigLoggers, Timeout : ConfigTimeouts, Model : ConfigModels,
   WorkingDirectory : ConfigWorkingDirectories]

NewClient ==
  [logger |-> "NoOpLogger", timeout |-> DefaultTimeout, model |-> DefaultModel,
   workingDirectory |-> ""]

\* NewClientWithConfig taking the Model of the Config as it is
NewClientWithConfig_RawModel(config) ==
  [logger |-> IF config.Logger # "nil" THEN config.Logger ELSE "NoOpLogger",
   timeout |-> IF config.Timeout > 0 THEN config.Timeout ELSE DefaultTimeout,
   model |-> config.Model,
   workingDirectory |->
     IF config.WorkingDirectory # "" THEN config.WorkingDirectory ELSE ""]

\* NewClientWithConfig keeping every non-zero Timeout
NewClientWithConfig_NonZeroTimeout(config) ==
  [logger |-> IF config.Logger # "nil" THEN config.Logger ELSE "NoOpLogger",
   timeout |-> IF config.Timeout # 0 THEN config.Timeout ELSE DefaultTimeout,
   model |-> IF config.Model # "" THEN config.Model ELSE DefaultModel,
   workingDirectory |->
     IF config.WorkingDirectory # "" THEN config.WorkingDirectory ELSE ""]

NewClientWithConfig(config) ==
  [logger |-> IF config.Logger # "nil" THEN config.Logger ELSE "NoOpLogger",
   timeout |-> IF config.Timeout > 0 THEN config.Timeout ELSE DefaultTimeout,
   model |-> IF config.Model # "" THEN config.Model ELSE DefaultModel,
   workingDirectory |->
     IF config.WorkingDirectory # "" THEN config.WorkingDirectory ELSE ""]

(***************************************************************************)
(* What the callers and the operating system may answer                    *)
(***************************************************************************)
Prompts == {"", "hi", "read ./a.go"}

\* the timeout arguments of ExecuteWithTimeout, in seconds
TimeoutArgs == {0, 5}

\* os.Getwd
GetwdResults ==
  { [dir |-> "/work", err |-> NoErr],
    [dir |-> "", err |-> NoErr],
    [dir |-> "", err |-> <<"getwd: no such file or directory">>] }

\* exec.LookPath("gemini")
LookPathResults ==
  { [path |-> "/usr/bin/gemini", err |-> NoErr],
    [path |-> "", err |-> <<"exec: \"gemini\": executable file not found in $PATH">>] }

\* os.Getenv("HOME")
HomeValues == {"", "/home/u"}

\* user.Current
UserResults ==
  { [home |-> "/home/v", err |-> NoErr],
    [home |-> "", err |-> <<"user: Current requires cgo or $USER set in environment">>] }

\* cmd.Start
StartResults == { NoErr, <<"fork/exec /usr/bin/gemini: permission denied">> }

\* cmd.Wait of a child that was not killed
WaitResults == { NoErr, <<"exit status 1">> }

\* what the child may have written to its standard output and standard error
Stdouts ==
  { "", "Loaded cached credentials.\n \n", "Loading cached credentials\n Hi \n",
    "Access ", "Unauthorized" }

Stderrs == { "", "denied \n" }

(***************************************************************************)
(* State                                                                   *)
(***************************************************************************)
VARIABLES
  client,   \* the Client: logger, timeout, model, workingDirectory
  calls,    \* per call slot, the state of the call made in it
  ncalls,   \* how many calls have been started on the client
  applied   \* the last call of a function that needs no child process

vars == <<client, calls, ncalls, applied>>

\* no such call has been made
NoApplication == [fn |-> "none", args |-> <<>>, result |-> <<>>]

Slots == {1}

\* a slot in which no call has been made
IdleCall ==
  [ pc |-> "idle",            \* idle, select, parked, returned
    api |-> "none",           \* Execute or ExecuteWithTimeout
    prompt |-> "",            \* the prompt argument
    arg |-> 0,                \* the timeout argument of ExecuteWithTimeout
    timeout |-> 0,            \* the timeout handed to runCommandWithTimeout
    resolveArgs |-> <<>>,     \* what resolveRelativePaths was called with
    resolvedPrompt |-> "",    \* the prompt the argument list is built with
    cmdArgs |-> <<>>,         \* the argument list built
    lookErr |-> NoErr,        \* the error of exec.LookPath
    path |-> "",              \* geminiPath
    dir |-> "",               \* cmd.Dir
    stages |-> <<>>,          \* the stages entered, in order
    oscalls |-> <<>>,         \* the operating-system calls made, in order
    log |-> <<>>,             \* the logger calls made, in order
    startErr |-> NoErr,       \* the error of cmd.Start
    proc |-> "none",          \* the child: none, running, killed, exited
    wait |-> NoErr,           \* what cmd.Wait returns once the child has exited
    stdout |-> "",            \* the bytes of the two buffers when they were read
    stderr |-> "",
    exitedBeforeTimer |-> FALSE,  \* the child exited while the timer had not fired
    wt |-> "none",            \* the wait task: none, waiting, finished
    done |-> <<>>,            \* the done channel (capacity 1)
    timer |-> "none",         \* the time.After timer: none, armed, fired
    chosen |-> "none",        \* the case the select took: none, done, timer
    kill |-> "none",          \* cmd.Process.Kill: none, sent, failed
    runOut |-> "",            \* what runCommandWithTimeout returned
    runErr |-> NoErr,
    parseErr |-> NoErr,       \* the error parseGeminiOutput returned
    result |-> "",            \* what the call returned
    err |-> NoErr ]

Log(level, msg) == <<level, msg>>

(***************************************************************************)
(* Execute and ExecuteWithTimeout, lines 90-162 and 165-237                *)
(***************************************************************************)
\* finishCall handing the output to the sanitizer after a failure of the run too
finishCall_SanitizesFailures(call, output, err) ==
  IF err # NoErr
  THEN [call EXCEPT !.pc = "returned", !.runOut = output, !.runErr = err,
          !.parseErr = parseGeminiOutput(output).err,
          !.log = Append(@, Log("error", "Gemini command execution failed")),
          !.stages = @ \o <<"sanitize", "return">>,
          !.result = "", !.err = WrapError(ErrCommandFailed, err)]
  ELSE LET parsed == parseGeminiOutput(output)
       IN  IF parsed.err # NoErr
           THEN [call EXCEPT !.pc = "returned", !.runOut = output, !.runErr = err,
                   !.parseErr = parsed.err,
                   !.log = Append(@, Log("error", "Failed to parse Gemini output")),
                   !.stages = @ \o <<"sanitize", "return">>,
                   !.result = "", !.err = WrapError(ErrParseOutput, parsed.err)]
           ELSE [call EXCEPT !.pc = "returned", !.runOut = output, !.runErr = err,
                   !.log = Append(@, Log("debug", "Gemini command completed successfully")),
                   !.stages = @ \o <<"sanitize", "return">>,
                   !.result = parsed.result, !.err = NoErr]

\* finishCall giving a failure of the sanitizer the prefix of the run stage
finishCall_OnePrefix(call, output, err) ==
  LET parsed == parseGeminiOutput(output)
      failure == IF err # NoErr THEN err ELSE parsed.err
  IN  IF failure # NoErr
      THEN [call EXCEPT !.pc = "returned", !.runOut = output, !.runErr = err,
              !.parseErr = IF err # NoErr THEN NoErr ELSE parsed.err,
              !.stages = Append(@, "return"),
              !.result = "", !.err = WrapError(ErrCommandFailed, failure)]
      ELSE [call EXCEPT !.pc = "returned", !.runOut = output, !.runErr = err,
              !.stages = @ \o <<"sanitize", "return">>,
              !.result = parsed.result, !.err = NoErr]

\* lines 147-161 (222-236): what the call returns once runCommandWithTimeout
\* has returned (output, err)
finishCall(call, output, err) ==
  IF err # NoErr
  THEN [call EXCEPT !.pc = "returned", !.runOut = output, !.runErr = err,
          !.log = Append(@, Log("error", "Gemini command execution failed")),
          !.stages = Append(@, "return"),
          !.result = "", !.err = WrapError(ErrCommandFailed, err)]
  ELSE LET parsed == parseGeminiOutput(output)
       IN  IF parsed.err # NoErr
           THEN [call EXCEPT !.pc = "returned", !.runOut = output, !.runErr = err,
                   !.parseErr = parsed.err,
                   !.log = Append(@, Log("error", "Failed to parse Gemini output")),
                   !.stages = @ \o <<"sanitize", "return">>,
                   !.result = "", !.err = WrapError(ErrParseOutput, parsed.err)]
           ELSE [call EXCEPT !.pc = "returned", !.runOut = output, !.runErr = err,
                   !.log = Append(@, Log("debug", "Gemini command completed successfully")),
                   !.stages = @ \o <<"sanitize", "return">>,
                   !.result = parsed.result, !.err = NoErr]

\* resolveStage going on without a prompt, and without a warning, when os.Getwd
\* fails
resolveStage_LosesPrompt(c, call, getwd) ==
  IF c.workingDirectory # ""
  THEN LET c1 == [call EXCEPT !.stages = Append(@, "resolve"),
                              !.oscalls = Append(@, "Getwd")]
       IN  IF getwd.err # NoErr
           THEN [call |-> c1, prompt |-> ""]
           ELSE LET r == resolveRelativePaths(call.prompt, getwd.dir)
                    c2 == [c1 EXCEPT !.resolveArgs = Append(@,
                             [prompt |-> call.prompt, baseDir |-> getwd.dir])]
                IN  [call |-> c2, prompt |-> r.prompt]
  ELSE [call |-> call, prompt |-> call.prompt]

\* resolveStage resolving against the configured working directory
resolveStage_ConfiguredBase(c, call, getwd) ==
  IF c.workingDirectory # ""
  THEN LET c1 == [call EXCEPT !.stages = Append(@, "resolve"),
                              !.oscalls = Append(@, "Getwd")]
       IN  IF getwd.err # NoErr
           THEN [call |-> [c1 EXCEPT !.log = Append(@,
                     Log("warn", "Failed to get current directory for path resolution"))],
                 prompt |-> call.prompt]
           ELSE LET r == resolveRelativePaths(call.prompt, c.workingDirectory)
                    c2 == [c1 EXCEPT !.resolveArgs = Append(@,
                             [prompt |-> call.prompt, baseDir |-> c.workingDirectory])]
                IN  [call |-> c2, prompt |-> r.prompt]
  ELSE [call |-> call, prompt |-> call.prompt]

\* lines 95-108 (170-183): the prompt the command is built with
resolveStage(c, call, getwd) ==
  IF c.workingDirectory # ""
  THEN LET c1 == [call EXCEPT !.stages = Append(@, "resolve"),
                              !.oscalls = Append(@, "Getwd")]
       IN  IF getwd.err # NoErr
           THEN [call |-> [c1 EXCEPT !.log = Append(@,
                     Log("warn", "Failed to get current directory for path resolution"))],
                 prompt |-> call.prompt]
           ELSE LET r == resolveRelativePaths(call.prompt, getwd.dir)
                    c2 == [c1 EXCEPT !.resolveArgs = Append(@,
                             [prompt |-> call.prompt, baseDir |-> getwd.dir])]
                IN  IF r.err # NoErr
                    THEN [call |-> [c2 EXCEPT !.log = Append(@,
                              Log("warn", "Failed to resolve relative paths"))],
                          prompt |-> call.prompt]
                    ELSE [call |-> c2, prompt |-> r.prompt]
  ELSE [call |-> call, prompt |-> call.prompt]

\* directoryStage falling back only when os.Getwd fails
directoryStage_OnGetwdErrorOnly(c, call, getwd, home, usr) ==
  LET c1 == [call EXCEPT !.stages = Append(@, "dir")]
  IN  IF c.workingDirectory # ""
      THEN [c1 EXCEPT !.dir = c.workingDirectory,
              !.log = Append(@, Log("debug", "Using configured working directory"))]
      ELSE LET c2 == [c1 EXCEPT !.oscalls = Append(@, "Getwd"), !.dir = getwd.dir]
               c3 == IF getwd.err # NoErr
                     THEN LET c4 == [c2 EXCEPT !.oscalls = Append(@, "Getenv"),
                                               !.dir = home]
                          IN  IF c4.dir = ""
                              THEN [c4 EXCEPT !.oscalls = Append(@, "UserCurrent"),
                                      !.dir = IF usr.err = NoErr THEN usr.home ELSE @]
                              ELSE c4
                     ELSE c2
           IN  [c3 EXCEPT !.log = Append(@, Log("debug", "Using current/default directory"))]

\* lines 126-144 (201-219): the directory the child is launched in
directoryStage(c, call, getwd, home, usr) ==
  LET c1 == [call EXCEPT !.stages = Append(@, "dir")]
  IN  IF c.workingDirectory # ""
      THEN [c1 EXCEPT !.dir = c.workingDirectory,
              !.log = Append(@, Log("debug", "Using configured working directory"))]
      ELSE LET c2 == [c1 EXCEPT !.oscalls = Append(@, "Getwd"), !.dir = getwd.dir]
               c3 == IF getwd.err # NoErr \/ c2.dir = ""
                     THEN LET c4 == [c2 EXCEPT !.oscalls = Append(@, "Getenv"),
                                               !.dir = home]
                          IN  IF c4.dir = ""
                              THEN [c4 EXCEPT !.oscalls = Append(@, "UserCurrent"),
                                      !.dir = IF usr.err = NoErr THEN usr.home ELSE @]
                              ELSE c4
                     ELSE c2
           IN  [c3 EXCEPT !.log = Append(@, Log("debug", "Using current/default directory"))]

\* startStage starting the command a second time when the first start fails
startStage_Retries(call, start) ==
  LET c1 == [call EXCEPT !.stages = Append(@, "run"), !.oscalls = Append(@, "Start"),
                         !.startErr = start]
  IN  IF start # NoErr
      THEN finishCall([c1 EXCEPT !.oscalls = Append(@, "Start")], "",
                      WrapError(ErrCommandStart, start))
      ELSE [c1 EXCEPT !.pc = "select", !.proc = "running", !.wt = "waiting"]

\* startStage classifying the text of a start failure like captured output
startStage_DetectsAuth(call, start) ==
  LET c1 == [call EXCEPT !.stages = Append(@, "run"), !.oscalls = Append(@, "Start"),
                         !.startErr = start]
  IN  IF start # NoErr
      THEN IF detectAuthError(ErrorText(start))
           THEN finishCall(c1, "", NewError(ErrAuthFailed))
           ELSE finishCall(c1, "", WrapError(ErrCommandStart, start))
      ELSE [c1 EXCEPT !.pc = "select", !.proc = "running", !.wt = "waiting"]

\* lines 259-275: cmd.Start and, when it succeeds, the launch of the wait task
startStage(call, start) ==
  LET c1 == [call EXCEPT !.stages = Append(@, "run"), !.oscalls = Append(@, "Start"),
                         !.startErr = start]
  IN  IF start # NoErr
      THEN finishCall(c1, "", WrapError(ErrCommandStart, start))
      ELSE [c1 EXCEPT !.pc = "select", !.proc = "running", !.wt = "waiting"]

\* lines 91-93 (166-168): the empty prompt is rejected
rejectEmptyPrompt(call) ==
  [call EXCEPT !.pc = "returned", !.stages = Append(@, "return"),
     !.result = "", !.err = NewError(ErrEmptyPrompt)]

\* lookPathFailed reporting the lookup error as a failure of the run stage
lookPathFailed_AsRunFailure(call, err) ==
  [call EXCEPT !.pc = "returned", !.stages = Append(@, "return"),
     !.lookErr = err,
     !.result = "",
     !.err = WrapError(ErrCommandFailed, err)]

\* lines 118-121 (193-196): the program was not found on the search path
lookPathFailed(call, err) ==
  [call EXCEPT !.pc = "returned", !.stages = Append(@, "return"),
     !.lookErr = err,
     !.log = Append(@, Log("error", "Failed to find gemini command")),
     !.result = "",
     !.err = WrapError("gemini command not found", err)]

\* lines 95-147 (170-222): the call of a non-empty prompt up to the select
\* statement of runCommandWithTimeout
runStages(c, call, getwd, lookPath, home, usr, start) ==
  LET resolved == resolveStage(c, call, getwd)
      c1 == [resolved.call EXCEPT
               !.resolvedPrompt = resolved.prompt,
               !.cmdArgs = buildGeminiCommandWithModel(c, resolved.prompt),
               !.stages = @ \o <<"build", "locate">>,
               !.log = Append(@, Log("debug", "Executing Gemini command")),
               !.oscalls = Append(@, "LookPath")]
  IN  IF lookPath.err # NoErr
      THEN lookPathFailed(c1, lookPath.err)
      ELSE
        LET c2 == [c1 EXCEPT !.path = lookPath.path,
                             !.log = Append(@, Log("debug", "Using gemini path"))]
        IN  startStage(directoryStage(c, c2, getwd, home, usr), start)

\* startCall without the check of lines 91-93
startCall_NoValidation(c, api, prompt, timeout, getwd, lookPath, home, usr, start) ==
  runStages(c, [IdleCall EXCEPT !.api = api, !.prompt = prompt, !.timeout = timeout,
                                !.stages = <<"validate">>],
            getwd, lookPath, home, usr, start)

\* the call up to the select statement of runCommandWithTimeout, or to its
\* return when it returns before
startCall(c, api, prompt, timeout, getwd, lookPath, home, usr, start) ==
  LET c0 == [IdleCall EXCEPT !.api = api, !.prompt = prompt, !.timeout = timeout,
                             !.stages = <<"validate">>]
  IN  IF prompt = ""
      THEN rejectEmptyPrompt(c0)
      ELSE runStages(c, c0, getwd, lookPath, home, usr, start)

\* a call can be made in slot i
CanCall(i) ==
  /\ ncalls < MaxSeqCalls
  /\ calls[i].pc = "idle"

Execute(i) ==
  /\ CanCall(i)
  /\ \E prompt \in Prompts, getwd \in GetwdResults, lookPath \in LookPathResults,
        home \in HomeValues, usr \in UserResults, start \in StartResults :
       calls' = [calls EXCEPT ![i] =
                   startCall(client, "Execute", prompt, client.timeout,
                             getwd, lookPath, home, usr, start)]
  /\ ncalls' = ncalls + 1
  /\ UNCHANGED <<client, applied>>

\* ExecuteWithTimeout storing its timeout argument in the client
ExecuteWithTimeout_StoresTimeout(i) ==
  /\ CanCall(i)
  /\ \E prompt \in Prompts, timeout \in TimeoutArgs,
        getwd \in GetwdResults, lookPath \in LookPathResults,
        home \in HomeValues, usr \in UserResults, start \in StartResults :
       /\ calls' = [calls EXCEPT ![i] =
                      [startCall(client, "ExecuteWithTimeout", prompt, timeout,
                                 getwd, lookPath, home, usr, start)
                         EXCEPT !.arg = timeout]]
       /\ client' = [client EXCEPT !.timeout = timeout]
  /\ ncalls' = ncalls + 1
  /\ UNCHANGED applied

\* ExecuteWithTimeout racing the client's timeout instead of its argument
ExecuteWithTimeout_ClientTimeout(i) ==
  /\ CanCall(i)
  /\ \E prompt \in Prompts, timeout \in TimeoutArgs,
        getwd \in GetwdResults, lookPath \in LookPathResults,
        home \in HomeValues, usr \in UserResults, start \in StartResults :
       calls' = [calls EXCEPT ![i] =
                   [startCall(client, "ExecuteWithTimeout", prompt, client.timeout,
                              getwd, lookPath, home, usr, start)
                      EXCEPT !.arg = timeout]]
  /\ ncalls' = ncalls + 1
  /\ UNCHANGED <<client, applied>>

ExecuteWithTimeout(i) ==
  /\ CanCall(i)
  /\ \E prompt \in Prompts, timeout \in TimeoutArgs,
        getwd \in GetwdResults, lookPath \in LookPathResults,
        home \in HomeValues, usr \in UserResults, start \in StartResults :
       calls' = [calls EXCEPT ![i] =
                   [startCall(client, "ExecuteWithTimeout", prompt, timeout,
                              getwd, lookPath, home, usr, start)
                      EXCEPT !.arg = timeout]]
  /\ ncalls' = ncalls + 1
  /\ UNCHANGED <<client, applied>>

(***************************************************************************)
(* runCommandWithTimeout, lines 259-310                                    *)
(***************************************************************************)
\* onCommandDone returning both buffers on success
onCommandDone_WithStderr(waitErr, stdout, stderr) ==
  IF waitErr # NoErr
  THEN IF detectAuthError(stdout \o stderr)
       THEN [output |-> "", err |-> NewError(ErrAuthFailed)]
       ELSE [output |-> "", err |-> NewError("command failed: " \o ErrorText(waitErr))]
  ELSE [output |-> stdout \o stderr, err |-> NoErr]

\* onCommandDone looking for the keywords in each buffer by itself
onCommandDone_EachBuffer(waitErr, stdout, stderr) ==
  IF waitErr # NoErr
  THEN LET stdoutStr == TrimSpace(stdout)
           stderrStr == TrimSpace(stderr)
       IN  IF detectAuthError(stdout) \/ detectAuthError(stderr)
           THEN [output |-> "", err |-> NewError(ErrAuthFailed)]
           ELSE [output |-> "",
                 err |-> NewError(
                   ("command failed: " \o ErrorText(waitErr))
                     \o (IF stderrStr # "" THEN " | stderr: " \o stderrStr ELSE "")
                     \o (IF stdoutStr # "" THEN " | stdout: " \o stdoutStr ELSE ""))]
  ELSE [output |-> stdout, err |-> NoErr]

\* onCommandDone looking for the authentication keywords before it looks at
\* the wait result
onCommandDone_AuthOnSuccess(waitErr, stdout, stderr) ==
  IF detectAuthError(stdout \o stderr)
  THEN [output |-> "", err |-> NewError(ErrAuthFailed)]
  ELSE IF waitErr # NoErr
       THEN [output |-> "",
             err |-> NewError(
               ("command failed: " \o ErrorText(waitErr))
                 \o (IF TrimSpace(stderr) # "" THEN " | stderr: " \o TrimSpace(stderr) ELSE "")
                 \o (IF TrimSpace(stdout) # "" THEN " | stdout: " \o TrimSpace(stdout) ELSE ""))]
       ELSE [output |-> stdout, err |-> NoErr]

\* lines 279-302: the case err := <-done; returns the pair (output, err)
onCommandDone(waitErr, stdout, stderr) ==
  IF waitErr # NoErr
  THEN LET stdoutStr == TrimSpace(stdout)
           stderrStr == TrimSpace(stderr)
           combined == stdout \o stderr
       IN  IF detectAuthError(combined)
           THEN [output |-> "", err |-> NewError(ErrAuthFailed)]
           ELSE [output |-> "",
                 err |-> NewError(
                   ("command failed: " \o ErrorText(waitErr))
                     \o (IF stderrStr # "" THEN " | stderr: " \o stderrStr ELSE "")
                     \o (IF stdoutStr # "" THEN " | stdout: " \o stdoutStr ELSE ""))]
  ELSE [output |-> stdout, err |-> NoErr]

\* line 308: what the case <-time.After(timeout) returns
onCommandTimeout(timeout) ==
  [output |-> "",
   err |-> NewError(ErrCommandTimeout \o " after " \o DurationString(timeout))]

\* the child exits: by itself, or because it was killed
ProcessExit(i) ==
  /\ calls[i].proc \in {"running", "killed"}
  /\ \E w \in (IF calls[i].proc = "killed" THEN {<<"signal: killed">>} ELSE WaitResults) :
       calls' = [calls EXCEPT ![i] =
         [@ EXCEPT !.proc = "exited",
                   !.exitedBeforeTimer = (calls[i].timer # "fired"),
                   !.wait = w]]
  /\ UNCHANGED <<client, ncalls, applied>>

\* WaitTaskSend on a channel without a buffer: the send needs the caller to be
\* receiving
WaitTaskSend_Unbuffered(i) ==
  /\ calls[i].wt = "waiting"
  /\ calls[i].proc = "exited"
  /\ calls[i].pc = "parked"
  /\ calls[i].chosen = "none"
  /\ calls' = [calls EXCEPT ![i] =
       [@ EXCEPT !.wt = "finished",
                 !.done = Append(@, calls[i].wait),
                 !.chosen = "done"]]
  /\ UNCHANGED <<client, ncalls, applied>>

\* lines 273-275, the wait task: cmd.Wait returns and its result is sent on
\* done; a caller parked in the select with nothing taken yet takes it
WaitTaskSend(i) ==
  /\ calls[i].wt = "waiting"
  /\ calls[i].proc = "exited"
  /\ Len(calls[i].done) < 1
  /\ calls' = [calls EXCEPT ![i] =
       [@ EXCEPT !.wt = "finished",
                 !.done = Append(@, calls[i].wait),
                 !.chosen = IF calls[i].pc = "parked" /\ @ = "none" THEN "done" ELSE @]]
  /\ UNCHANGED <<client, ncalls, applied>>

\* line 278, entering the select: time.After(timeout) is evaluated, then the
\* cases that are ready are polled and one of them is taken; with none ready
\* the caller parks.  A timer of a non-positive duration may be ready at once.
SelectEnter(i) ==
  /\ calls[i].pc = "select"
  /\ \E immediate \in (IF calls[i].timeout <= 0 THEN {TRUE, FALSE} ELSE {FALSE}) :
       LET ready == (IF calls[i].done # <<>> THEN {"done"} ELSE {})
                      \cup (IF immediate THEN {"timer"} ELSE {})
       IN  \E ch \in (IF ready = {} THEN {"none"} ELSE ready) :
             calls' = [calls EXCEPT ![i] =
               [@ EXCEPT !.pc = "parked",
                         !.timer = IF immediate THEN "fired" ELSE "armed",
                         !.chosen = ch]]
  /\ UNCHANGED <<client, ncalls, applied>>

\* TimerFire overriding a case the select has taken already
TimerFire_Overrides(i) ==
  /\ calls[i].timer = "armed"
  /\ calls' = [calls EXCEPT ![i] =
       [@ EXCEPT !.timer = "fired",
                 !.chosen = IF calls[i].pc = "parked" THEN "timer" ELSE @]]
  /\ UNCHANGED <<client, ncalls, applied>>

\* the timer of time.After fires; a caller parked in the select with nothing
\* taken yet takes it
TimerFire(i) ==
  /\ calls[i].timer = "armed"
  /\ calls' = [calls EXCEPT ![i] =
       [@ EXCEPT !.timer = "fired",
                 !.chosen = IF calls[i].pc = "parked" /\ @ = "none" THEN "timer" ELSE @]]
  /\ UNCHANGED <<client, ncalls, applied>>

\* lines 279-302, then 148-161: the select took done; the two buffers hold
\* what the child wrote, which is read here
SelectDone(i) ==
  /\ calls[i].pc = "parked"
  /\ calls[i].chosen = "done"
  /\ \E stdout \in Stdouts, stderr \in Stderrs :
       LET c1 == [calls[i] EXCEPT !.done = Tail(@), !.stdout = stdout, !.stderr = stderr]
           out == onCommandDone(Head(calls[i].done), stdout, stderr)
       IN  calls' = [calls EXCEPT ![i] = finishCall(c1, out.output, out.err)]
  /\ UNCHANGED <<client, ncalls, applied>>

\* SelectTimeout killing every running child of the client
SelectTimeout_KillsAll(i) ==
  /\ calls[i].pc = "parked"
  /\ calls[i].chosen = "timer"
  /\ LET c1 == [calls[i] EXCEPT
                  !.kill = IF calls[i].wt = "finished" THEN "failed" ELSE "sent",
                  !.proc = IF @ = "running" THEN "killed" ELSE @]
         out == onCommandTimeout(calls[i].timeout)
     IN  calls' = [j \in DOMAIN calls |->
                     IF j = i THEN finishCall(c1, out.output, out.err)
                     ELSE [calls[j] EXCEPT !.proc = IF @ = "running" THEN "killed" ELSE @]]
  /\ UNCHANGED <<client, ncalls, applied>>

\* lines 303-308, then 148-151: the select took the timer; the child is
\* killed, and Kill fails (which is ignored) when the child has been reaped
SelectTimeout(i) ==
  /\ calls[i].pc = "parked"
  /\ calls[i].chosen = "timer"
  /\ LET c1 == [calls[i] EXCEPT
                  !.kill = IF calls[i].wt = "finished" THEN "failed" ELSE "sent",
                  !.proc = IF @ = "running" THEN "killed" ELSE @]
         out == onCommandTimeout(calls[i].timeout)
     IN  calls' = [calls EXCEPT ![i] = finishCall(c1, out.output, out.err)]
  /\ UNCHANGED <<client, ncalls, applied>>

\* the caller has taken what the call returned, and what the call left behind
\* (its wait task, its timer) has come to its end: the slot is free again
Release(i) ==
  /\ calls[i].pc = "returned"
  /\ calls[i].wt # "waiting"
  /\ calls[i].timer # "armed"
  /\ calls' = [calls EXCEPT ![i] = IdleCall]
  /\ UNCHANGED <<client, ncalls, applied>>

(***************************************************************************)
(* Specification                                                           *)
(***************************************************************************)
Init ==
  /\ client \in {NewClient} \cup {NewClientWithConfig(config) : config \in Configs}
  /\ calls = [i \in Slots |-> IdleCall]
  /\ ncalls = 0
  /\ applied = NoApplication

Next ==
  \E i \in Slots :
    \/ Execute(i)
    \/ ExecuteWithTimeout(i)
    \/ ProcessExit(i)
    \/ WaitTaskSend(i)
    \/ SelectEnter(i)
    \/ TimerFire(i)
    \/ SelectDone(i)
    \/ SelectTimeout(i)
    \/ Release(i)

Spec == Init /\ [][Next]_vars

(***************************************************************************)
(* The functions that need no child process, called on their own           *)
(***************************************************************************)
\* bounds of the inputs the functions are called with
MaxLines == 3
MaxPieces == 2
MaxTokens == 3

\* the concatenations of 1..n pieces
RECURSIVE Concats(_, _)
Concats(pieces, n) ==
  IF n <= 1 THEN pieces
  ELSE LET shorter == Concats(pieces, n - 1)
       IN  shorter \cup {s \o p : s \in shorter, p \in pieces}

\* the texts of 1..n lines
RECURSIVE LinesOf(_, _)
LinesOf(lines, n) ==
  IF n <= 1 THEN lines
  ELSE LET shorter == LinesOf(lines, n - 1)
       IN  shorter \cup {s \o "\n" \o l : s \in shorter, l \in lines}

\* the prompts handed to the builders
BuilderPrompts == {"", "hi", " two  words \n", "-m x", "read ./a.go"}

\* lines the child may print
OutputLines ==
  { "", " \t", "Hello, world!", "  indented \r", "[info] Token refreshed (2s)",
    "authenticating" }

\* each filter phrase alone in a line, inside a line, and in lower case
PhraseLines ==
  UNION { { filterPatterns[p], "> " \o filterPatterns[p] \o " <",
            ToLower(filterPatterns[p]) } : p \in 1..Len(filterPatterns) }

Outputs == LinesOf(OutputLines, MaxLines) \cup PhraseLines

\* pieces of the texts classified by detectAuthError
AuthPieces ==
  { "Error: ", "Authentication Failed", "INVALID API KEY", "Un", "authorized",
    "Access ", "denied\n", "Permission  Denied", "permission denied" }

AuthTexts == {""} \cup Concats(AuthPieces, MaxPieces)

\* pieces of the prompts handed to resolveRelativePaths
PromptPieces ==
  { " see ", "./a.go", "../x/y.json", "/abs/f.txt", "sub/d/f.py", "." }

ResolverPrompts == {""} \cup Concats(PromptPieces, MaxTokens)

BaseDirs == {"", "/work", "/p/src/../lib/"}

\* a function is called when the call before it has returned to the caller
CanApply == applied.fn = "none"

\* c := NewClient()
CallNewClient ==
  /\ CanApply
  /\ applied' = [fn |-> "NewClient", args |-> <<>>, result |-> NewClient]
  /\ UNCHANGED <<client, calls, ncalls>>

\* c := NewClientWithConfig(config)
CallNewClientWithConfig ==
  /\ CanApply
  /\ \E config \in Configs :
       applied' = [fn |-> "NewClientWithConfig", args |-> config,
                   result |-> NewClientWithConfig(config)]
  /\ UNCHANGED <<client, calls, ncalls>>

\* c.buildGeminiCommandWithModel(prompt) of a client c made by either
\* constructor
CallBuildGeminiCommandWithModel ==
  /\ CanApply
  /\ \E prompt \in BuilderPrompts :
       \/ applied' = [fn |-> "buildGeminiCommandWithModel",
                      args |-> [constructor |-> "NewClient", prompt |-> prompt],
                      result |-> buildGeminiCommandWithModel(NewClient, prompt)]
       \/ \E config \in Configs :
            applied' = [fn |-> "buildGeminiCommandWithModel",
                        args |-> [constructor |-> "NewClientWithConfig",
                                  config |-> config, prompt |-> prompt],
                        result |-> buildGeminiCommandWithModel(
                                     NewClientWithConfig(config), prompt)]
  /\ UNCHANGED <<client, calls, ncalls>>

\* lines 451-454
BuildGeminiCommand ==
  /\ CanApply
  /\ \E prompt \in BuilderPrompts :
       applied' = [fn |-> "BuildGeminiCommand", args |-> prompt,
                   result |-> buildGeminiCommand(prompt)]
  /\ UNCHANGED <<client, calls, ncalls>>

\* lines 90-147 (165-222): a call of Execute or ExecuteWithTimeout on a client
\* just made, up to the select statement of runCommandWithTimeout, with the
\* answers the operating system gave it
ExecuteCommandLine ==
  /\ CanApply
  /\ \E config \in Configs, prompt \in Prompts \ {""}, getwd \in GetwdResults,
        lookPath \in LookPathResults, home \in HomeValues, usr \in UserResults,
        start \in StartResults :
       LET c == NewClientWithConfig(config)
           args == [config |-> config, prompt |-> prompt, getwd |-> getwd,
                    lookPath |-> lookPath, home |-> home, usr |-> usr,
                    start |-> start]
       IN  \/ applied' = [fn |-> "Execute", args |-> args,
                          result |-> startCall(c, "Execute", prompt, c.timeout,
                                               getwd, lookPath, home, usr, start)]
           \/ \E timeout \in TimeoutArgs :
                applied' = [fn |-> "ExecuteWithTimeout", args |-> args,
                            result |-> [startCall(c, "ExecuteWithTimeout", prompt,
                                                  timeout, getwd, lookPath, home,
                                                  usr, start)
                                          EXCEPT !.arg = timeout]]
  /\ UNCHANGED <<client, calls, ncalls>>

\* lines 463-466
ParseGeminiOutput ==
  /\ CanApply
  /\ \E output \in {""} \cup Outputs :
       applied' = [fn |-> "ParseGeminiOutput", args |-> output,
                   result |-> parseGeminiOutput(output)]
  /\ UNCHANGED <<client, calls, ncalls>>

\* c.filterGeminiOutput(output)
CallFilterGeminiOutput ==
  /\ CanApply
  /\ \E output \in Outputs :
       applied' = [fn |-> "filterGeminiOutput", args |-> output,
                   result |-> filterGeminiOutput(output)]
  /\ UNCHANGED <<client, calls, ncalls>>

\* lines 457-460
DetectAuthError ==
  /\ CanApply
  /\ \E output \in AuthTexts :
       applied' = [fn |-> "DetectAuthError", args |-> output,
                   result |-> detectAuthError(output)]
  /\ UNCHANGED <<client, calls, ncalls>>

\* c.resolveRelativePaths(prompt, baseDir)
CallResolveRelativePaths ==
  /\ CanApply
  /\ \E prompt \in ResolverPrompts, baseDir \in BaseDirs :
       applied' = [fn |-> "resolveRelativePaths",
                   args |-> [prompt |-> prompt, baseDir |-> baseDir],
                   result |-> resolveRelativePaths(prompt, baseDir)]
  /\ UNCHANGED <<client, calls, ncalls>>

\* the caller is done with the value returned
Return ==
  /\ applied.fn # "none"
  /\ applied' = NoApplication
  /\ UNCHANGED <<client, calls, ncalls>>

InitFunctions ==
  /\ client = NewClient
  /\ calls = [i \in Slots |-> IdleCall]
  /\ ncalls = 0
  /\ applied = NoApplication

NextFunctions ==
  \/ CallNewClient
  \/ CallNewClientWithConfig
  \/ CallBuildGeminiCommandWithModel
  \/ BuildGeminiCommand
  \/ ExecuteCommandLine
  \/ ParseGeminiOutput
  \/ CallFilterGeminiOutput
  \/ DetectAuthError
  \/ CallResolveRelativePaths
  \/ Return

SpecFunctions == InitFunctions /\ [][NextFunctions]_vars

(***************************************************************************)
(* Scheduling                                                              *)
(***************************************************************************)
\* the operating system ends a child that was sent a kill
KilledProcessExits(i) == calls[i].proc = "killed" /\ ProcessExit(i)

\* a goroutine that can run is run, a timer that is armed fires, a killed child
\* is reaped; a child that is not killed need not ever exit
Fairness ==
  \A i \in Slots :
    /\ WF_vars(SelectEnter(i))
    /\ WF_vars(TimerFire(i))
    /\ WF_vars(SelectDone(i))
    /\ WF_vars(SelectTimeout(i))
    /\ WF_vars(KilledProcessExits(i))
    /\ WF_vars(WaitTaskSend(i))

\* the scheduling of a call does not depend on how the client was configured:
\* the client of NewClient, with every timeout given by ExecuteWithTimeout
InitLive ==
  /\ client = NewClient
  /\ calls = [i \in Slots |-> IdleCall]
  /\ ncalls = 0
  /\ applied = NoApplication

SpecLive == InitLive /\ [][Next]_vars /\ Fairness

(***************************************************************************)
(* Two calls running at the same time on one client                        *)
(***************************************************************************)
\* the two callers (goroutines) that share the client
Callers == {1, 2}

\* the prompt of the two calls, and the timeout of the one that brings its own
ConcurrentPrompt == "hi"
ConcurrentTimeouts == {5}

\* caller i has made no call yet
CanCallOnce(i) == calls[i].pc = "idle"

\* lines 90-147: caller i calls Execute; the answers of the operating system
\* are those of a system where gemini is installed and starts
ConcurrentExecute(i) ==
  /\ CanCallOnce(i)
  /\ calls' = [calls EXCEPT ![i] =
       startCall(client, "Execute", ConcurrentPrompt, client.timeout,
                 [dir |-> "/work", err |-> NoErr],
                 [path |-> "/usr/bin/gemini", err |-> NoErr],
                 "/home/u", [home |-> "/home/v", err |-> NoErr], NoErr)]
  /\ ncalls' = ncalls + 1
  /\ UNCHANGED <<client, applied>>

\* lines 165-222: caller i calls ExecuteWithTimeout
ConcurrentExecuteWithTimeout(i) ==
  /\ CanCallOnce(i)
  /\ \E timeout \in ConcurrentTimeouts :
       calls' = [calls EXCEPT ![i] =
         [startCall(client, "ExecuteWithTimeout", ConcurrentPrompt, timeout,
                    [dir |-> "/work", err |-> NoErr],
                    [path |-> "/usr/bin/gemini", err |-> NoErr],
                    "/home/u", [home |-> "/home/v", err |-> NoErr], NoErr)
            EXCEPT !.arg = timeout]]
  /\ ncalls' = ncalls + 1
  /\ UNCHANGED <<client, applied>>

InitConcurrent ==
  /\ client = NewClient
  /\ calls = [i \in Callers |-> IdleCall]
  /\ ncalls = 0
  /\ applied = NoApplication

NextConcurrent ==
  \E i \in Callers :
    \/ ConcurrentExecute(i)
    \/ ConcurrentExecuteWithTimeout(i)
    \/ ProcessExit(i)
    \/ WaitTaskSend(i)
    \/ SelectEnter(i)
    \/ TimerFire(i)
    \/ SelectDone(i)
    \/ SelectTimeout(i)

SpecConcurrent == InitConcurrent /\ [][NextConcurrent]_vars

(***************************************************************************)
(* Properties                                                              *)
(***************************************************************************)
\* the call in slot i has returned
Returned(i) == calls[i].pc = "returned"

\* the duration the race of the call in slot i is meant to be run against
RacedDuration(i) ==
  IF calls[i].api = "ExecuteWithTimeout" THEN calls[i].arg ELSE client.timeout

Mentions(seq, x) == \E k \in 1..Len(seq) : seq[k] = x

\* C1: a call of Execute or ExecuteWithTimeout with the empty prompt returns
\* the empty result and the empty-prompt error, and makes no path resolution,
\* no executable lookup and no start of a child process.
C1_EmptyPromptRejected ==
  \A i \in Slots :
    (calls[i].api # "none" /\ calls[i].prompt = "") =>
      /\ Returned(i)
      /\ calls[i].result = ""
      /\ calls[i].err = <<"prompt cannot be empty">>
      /\ calls[i].oscalls = <<>>
      /\ ~Mentions(calls[i].stages, "resolve")
      /\ ~Mentions(calls[i].stages, "locate")
      /\ ~Mentions(calls[i].stages, "run")
      /\ calls[i].proc = "none"
      /\ calls[i].wt = "none"

C1_Witness ==
  \E i \in Slots :
    /\ calls[i].api = "ExecuteWithTimeout"
    /\ calls[i].prompt = ""
    /\ client.workingDirectory # ""
    /\ Returned(i)

\* C2: when the select of runCommandWithTimeout takes the timer (the timer has
\* fired and the completion had not been taken), the child is sent a kill,
\* whose failure is ignored, and the call returns no output bytes and the
\* timeout error naming the duration raced against.
C2_TimerBranch ==
  \A i \in Slots :
    /\ (calls[i].pc = "parked" /\ calls[i].timer = "fired") => calls[i].chosen # "none"
    /\ (Returned(i) /\ calls[i].chosen = "timer") =>
         /\ calls[i].kill \in {"sent", "failed"}
         /\ calls[i].proc \in {"killed", "exited"}
         /\ calls[i].runOut = ""
         /\ calls[i].runErr =
              <<"command timed out after " \o DurationString(RacedDuration(i))>>

C2_Witness ==
  \E i \in Slots :
    /\ Returned(i)
    /\ calls[i].chosen = "timer"
    /\ calls[i].api = "ExecuteWithTimeout"
    /\ calls[i].arg = 5
    /\ calls[i].kill = "failed"
    /\ calls[i].runErr = <<"command timed out after 5s">>

\* C3: the race is decided once: the case the select took never changes, the
\* outcome returned is the one of that case, and what happens to the loser
\* afterwards (the child exiting after a timeout, the timer firing after a
\* completion) changes nothing of what was returned.
C3_DecidedOnce ==
  [][\A i \in Slots :
       /\ (calls[i].chosen # "none" /\ calls'[i].pc # "idle") =>
            calls'[i].chosen = calls[i].chosen
       /\ (Returned(i) /\ calls'[i].pc # "idle") =>
            /\ calls'[i].pc = "returned"
            /\ calls'[i].runOut = calls[i].runOut
            /\ calls'[i].runErr = calls[i].runErr
            /\ calls'[i].result = calls[i].result
            /\ calls'[i].err = calls[i].err
       /\ (calls[i].pc = "parked" /\ calls'[i].pc = "returned") =>
            /\ calls[i].chosen \in {"done", "timer"}
            /\ (calls[i].chosen = "timer") <=>
                 HasPrefix(ErrorText(calls'[i].runErr \o <<"">>), ErrCommandTimeout)
     ]_vars

C3_Witness ==
  \E i \in Slots :
    /\ Returned(i)
    /\ calls[i].chosen = "timer"
    /\ calls[i].wt = "finished"
    /\ calls[i].done # <<>>
    /\ HasPrefix(ErrorText(calls[i].runErr), ErrCommandTimeout)

\* the select of the call in slot i took done and the call has returned
CompletionTaken(i) == Returned(i) /\ calls[i].chosen = "done"

\* the text contains the keyword, letter case not regarded
ContainsFold(text, keyword) ==
  \E a \in 1..(Len(text) - Len(keyword) + 1) :
    /\ ToLowerChar(CharAt(text, a)) = CharAt(keyword, 1)
    /\ ToLower(SubSeq(text, a, a + Len(keyword) - 1)) = keyword

\* C4, as stated: a child that exits successfully before the timer fires gives
\* a success outcome holding exactly the captured stdout, never a timeout
\* (looked at for the calls that race a positive duration).
C4_ExitBeforeTimerSucceeds ==
  \A i \in Slots :
    (Returned(i) /\ calls[i].timeout > 0
       /\ calls[i].proc = "exited" /\ calls[i].wait = NoErr
       /\ calls[i].exitedBeforeTimer) =>
      /\ calls[i].runErr = NoErr
      /\ calls[i].runOut = calls[i].stdout

\* C4, amended: when the select takes the completion and the wait result is
\* nil, the outcome is a success whose bytes are exactly the captured stdout,
\* whatever stderr holds, and not a timeout.
C4_CompletionTakenSucceeds ==
  \A i \in Slots :
    (CompletionTaken(i) /\ calls[i].wait = NoErr) =>
      /\ calls[i].runErr = NoErr
      /\ calls[i].runOut = calls[i].stdout
      /\ calls[i].kill = "none"

C4_Witness ==
  \E i \in Slots :
    /\ CompletionTaken(i)
    /\ calls[i].wait = NoErr
    /\ calls[i].timer = "fired"
    /\ calls[i].stdout = "Loading cached credentials\n Hi \n"
    /\ calls[i].stderr = "denied \n"
    /\ calls[i].runOut = "Loading cached credentials\n Hi \n"

C6_StartFailure ==
  \A i \in Slots :
    (calls[i].startErr # NoErr) =>
      /\ Returned(i)
      /\ calls[i].runOut = ""
      /\ calls[i].runErr =
           <<"failed to start command: " \o ErrorText(calls[i].startErr)>>
             \o calls[i].startErr
      /\ calls[i].wt = "none"
      /\ calls[i].timer = "none"
      /\ calls[i].done = <<>>
      /\ calls[i].chosen = "none"
      /\ calls[i].proc = "none"
      /\ calls[i].kill = "none"
      /\ calls[i].runErr # <<ErrAuthFailed>>
      /\ ~HasPrefix(ErrorText(calls[i].runErr), "command timed out")
      /\ ~HasPrefix(ErrorText(calls[i].runErr), "command failed")

C6_Witness ==
  \E i \in Slots :
    /\ Returned(i)
    /\ calls[i].startErr # NoErr
    /\ ContainsFold(ErrorText(calls[i].startErr), "permission denied")
    /\ calls[i].oscalls[Len(calls[i].oscalls)] = "Start"

C8_NotAvailableIsExecutionFailure ==
  \A i \in Slots :
    (Returned(i) /\ calls[i].api = "Execute" /\ calls[i].prompt # ""
       /\ (calls[i].lookErr # NoErr \/ calls[i].startErr # NoErr)) =>
      /\ calls[i].result = ""
      /\ Contains(ErrorText(calls[i].err), "failed to execute Gemini command")

\* C9: an error of the run stage reaches the caller wrapped with the prefix
\* "failed to execute Gemini command", an error of the sanitize stage wrapped
\* with "failed to parse Gemini output"; the stage's error is the wrapped
\* cause, and no error carries both prefixes.
C9_StagePrefixes ==
  \A i \in Slots :
    Returned(i) =>
      /\ (calls[i].runErr # NoErr) =>
           /\ calls[i].err =
                <<"failed to execute Gemini command: " \o ErrorText(calls[i].runErr)>>
                  \o calls[i].runErr
           /\ Unwrap(calls[i].err) = calls[i].runErr
           /\ calls[i].parseErr = NoErr
      /\ (calls[i].parseErr # NoErr) =>
           /\ calls[i].err =
                <<"failed to parse Gemini output: " \o ErrorText(calls[i].parseErr)>>
                  \o calls[i].parseErr
           /\ Unwrap(calls[i].err) = calls[i].parseErr
           /\ calls[i].runErr = NoErr
      /\ Cardinality({k \in 1..Len(calls[i].err) :
                        \/ HasPrefix(calls[i].err[k], "failed to execute Gemini command")
                        \/ HasPrefix(calls[i].err[k], "failed to parse Gemini output")}) <= 1

C9_Witness ==
  \E i \in Slots :
    /\ Returned(i)
    /\ calls[i].parseErr = <<ErrEmptyOutput>>
    /\ calls[i].stdout # ""
    /\ ErrorText(calls[i].err) =
         "failed to parse Gemini output: empty output from Gemini command"

\* C10: every call returns either a non-empty result and no error, or the
\* empty result and an error.
C10_ResultXorError ==
  \A i \in Slots :
    Returned(i) =>
      \/ calls[i].result # "" /\ calls[i].err = NoErr
      \/ calls[i].result = "" /\ calls[i].err # NoErr

C10_Witness ==
  \E i \in Slots :
    /\ CompletionTaken(i)
    /\ calls[i].wait = NoErr
    /\ calls[i].stdout = "Loaded cached credentials.\n \n"
    /\ calls[i].result = ""
    /\ calls[i].err # NoErr



\* C11: the client built by NewClient or NewClientWithConfig has a strictly
\* positive timeout: a positive Timeout of the Config is kept as given, a zero
\* or negative one is replaced by the default of 30 seconds.
C11_TimeoutPositive ==
  /\ applied.fn = "NewClient" => applied.result.timeout = 30
  /\ applied.fn = "NewClientWithConfig" =>
       /\ applied.result.timeout > 0
       /\ applied.args.Timeout > 0 => applied.result.timeout = applied.args.Timeout
       /\ applied.args.Timeout <= 0 => applied.result.timeout = 30

C11_Witness ==
  /\ applied.fn = "NewClientWithConfig"
  /\ applied.args.Timeout < 0
  /\ applied.result.timeout = 30

\* C12: the model-form builder of a client made by either constructor returns
\* the list of five elements gemini, -m, model, -p, prompt, where model is the
\* Model of the Config when that is not empty and gemini-2.5-flash when it is
\* empty or the client was made by NewClient; the model element is never empty.
C12_ModelForm ==
  applied.fn = "buildGeminiCommandWithModel" =>
    LET supplied == IF applied.args.constructor = "NewClientWithConfig"
                    THEN applied.args.config.Model ELSE ""
        model == IF supplied # "" THEN supplied ELSE "gemini-2.5-flash"
    IN  /\ Len(applied.result) = 5
        /\ applied.result = <<"gemini", "-m", model, "-p", applied.args.prompt>>
        /\ applied.result[3] # ""

C12_Witness ==
  /\ applied.fn = "buildGeminiCommandWithModel"
  /\ applied.args.constructor = "NewClientWithConfig"
  /\ applied.args.config.Model = ""
  /\ applied.args.prompt = "hi"
  /\ applied.result = <<"gemini", "-m", "gemini-2.5-flash", "-p", "hi">>

\* C13: in the argument list built by either builder the prompt is the last
\* element and is the prompt handed to the builder, character for character;
\* in Execute that prompt is the path-resolved prompt when the client has a
\* working directory and os.Getwd succeeds, and the caller's prompt otherwise.
C13_PromptLast ==
  /\ applied.fn = "buildGeminiCommandWithModel" =>
       applied.result[Len(applied.result)] = applied.args.prompt
  /\ applied.fn = "BuildGeminiCommand" =>
       /\ Len(applied.result) = 3
       /\ SubSeq(applied.result, 1, 2) = <<"gemini", "-p">>
       /\ applied.result[Len(applied.result)] = applied.args
  /\ applied.fn = "Execute" =>
       LET handed ==
             IF applied.args.config.WorkingDirectory # "" /\ applied.args.getwd.err = NoErr
             THEN resolveRelativePaths(applied.args.prompt, applied.args.getwd.dir).prompt
             ELSE applied.args.prompt
       IN  /\ applied.result.resolvedPrompt = handed
           /\ Len(applied.result.cmdArgs) = 5
           /\ applied.result.cmdArgs[Len(applied.result.cmdArgs)] = handed

C13_Witness ==
  /\ applied.fn = "Execute"
  /\ applied.args.prompt = "read ./a.go"
  /\ applied.result.cmdArgs[5] = "read /work/a.go"

\* the seven filter phrases
FilterPhrases ==
  { "Loaded cached credentials.", "Loading cached credentials", "Authenticating",
    "Authentication successful", "Connected to Gemini API", "Using cached token",
    "Token refreshed" }

\* the line is blank or contains a filter phrase
NoiseLine(line) ==
  \/ TrimSpace(line) = ""
  \/ \E phrase \in FilterPhrases : Contains(line, phrase)

ContentLine(line) == ~NoiseLine(line)

\* C14: ParseGeminiOutput fails with the same error, empty output from Gemini
\* command, when its input is empty and when every line of its input is blank
\* or contains a filter phrase.
C14_SameEmptyOutputError ==
  applied.fn = "ParseGeminiOutput" =>
    LET lines == SplitLines(applied.args)
    IN  (applied.args = "" \/ \A k \in 1..Len(lines) : NoiseLine(lines[k])) =>
          applied.result = [result |-> "", err |-> <<"empty output from Gemini command">>]

C14_Witness ==
  /\ applied.fn = "ParseGeminiOutput"
  /\ applied.args = "[info] Token refreshed (2s)\n \t\n[info] Token refreshed (2s)"
  /\ applied.result.err = <<"empty output from Gemini command">>

\* the content lines of a text, in its order
ContentLines(text) == SelectSeq(SplitLines(text), ContentLine)

\* C15 as stated: when ParseGeminiOutput succeeds, the result is the content
\* lines of the input joined by newlines, each line verbatim.
C15_ContentLinesVerbatim ==
  (applied.fn = "ParseGeminiOutput" /\ applied.result.err = NoErr) =>
    applied.result.result = JoinLines(ContentLines(applied.args))

\* C15: when ParseGeminiOutput succeeds, the result is the content lines of the
\* input joined by newlines in their order, none dropped, duplicated or
\* reordered, with the white space at the start of the first content line and
\* at the end of the last content line removed and every other character kept.
C15_ContentLinesTrimmedAtEnds ==
  (applied.fn = "ParseGeminiOutput" /\ applied.result.err = NoErr) =>
    /\ ContentLines(applied.args) # <<>>
    /\ applied.result.result = TrimSpace(JoinLines(ContentLines(applied.args)))

C15_Witness ==
  /\ applied.fn = "ParseGeminiOutput"
  /\ applied.args = "  indented \r\n[info] Token refreshed (2s)\n  indented \r"
  /\ applied.result = [result |-> "indented \r\n  indented", err |-> NoErr]

\* C16: filterGeminiOutput drops a line exactly when the line is blank after
\* trimming or contains, anywhere and in exact case, one of the seven filter
\* phrases; a dropped line is removed whole, a line with a phrase in another
\* letter case is kept: the lines of the result are the other lines of the
\* input, one for one.
C16_DropsNoiseLinesOnly ==
  applied.fn = "filterGeminiOutput" =>
    LET kept == ContentLines(applied.args)
        out == SplitLines(applied.result)
    IN  IF kept = <<>>
        THEN applied.result = ""
        ELSE /\ Len(out) = Len(kept)
             /\ \A k \in 1..Len(kept) :
                  /\ TrimSpace(out[k]) = TrimSpace(kept[k])
                  /\ (1 < k /\ k < Len(kept)) => out[k] = kept[k]

C16_Witness ==
  /\ applied.fn = "filterGeminiOutput"
  /\ applied.args = "authenticating\n[info] Token refreshed (2s)\nHello, world!"
  /\ applied.result = "authenticating\nHello, world!"

\* the five keywords of an authentication failure
AuthKeywords ==
  { "authentication failed", "invalid api key", "permission denied",
    "unauthorized", "access denied" }

\* C17: DetectAuthError returns true exactly when the text contains, letter
\* case not regarded, at least one of the five keywords.
C17_AuthErrorIffKeyword ==
  applied.fn = "DetectAuthError" =>
    (applied.result <=> \E keyword \in AuthKeywords : ContainsFold(applied.args, keyword))

C17_Witness ==
  /\ applied.fn = "DetectAuthError"
  /\ applied.args = "Error: Authentication Failed"
  /\ applied.result = TRUE

\* the characters from..to of a text, none when to < from
Sub(s, from, to) == IF to < from THEN "" ELSE SubSeq(s, from, to)

HasSuffix(s, suffix) ==
  Len(suffix) <= Len(s) /\ Sub(s, Len(s) - Len(suffix) + 1, Len(s)) = suffix

\* the path-like tokens of a prompt from position p on, left to right: where
\* each starts and ends
RECURSIVE PathTokens(_, _)
PathTokens(s, p) ==
  IF p > Len(s) THEN <<>>
  ELSE LET e == MatchPathPattern(s, p)
       IN  IF e > 0
           THEN <<[from |-> p, to |-> e - 1]>> \o PathTokens(s, e)
           ELSE PathTokens(s, p + 1)

\* the text before the first token, between the tokens, and after the last
TextAround(s, tokens) ==
  [k \in 1..(Len(tokens) + 1) |->
     Sub(s, IF k = 1 THEN 1 ELSE tokens[k - 1].to + 1,
            IF k = Len(tokens) + 1 THEN Len(s) ELSE tokens[k].from - 1)]

\* the texts k.. occur in s from position p on, one after the other
RECURSIVE OccurInOrder(_, _, _, _)
OccurInOrder(s, p, texts, k) ==
  IF k > Len(texts) THEN TRUE
  ELSE LET A == {a \in p..(Len(s) - Len(texts[k]) + 1) :
                   Sub(s, a, a + Len(texts[k]) - 1) = texts[k]}
       IN  /\ A # {}
           /\ OccurInOrder(s, (CHOOSE a \in A : \A b \in A : a <= b) + Len(texts[k]),
                           texts, k + 1)

\* C18: resolveRelativePaths changes only the path-like tokens it matches: the
\* text before the first token starts the result, the text after the last ends
\* it, the texts between the tokens occur in it in their order, and a prompt
\* with no path-like token is returned unchanged, whatever the base directory.
C18_OnlyTokensChange ==
  applied.fn = "resolveRelativePaths" =>
    LET tokens == PathTokens(applied.args.prompt, 1)
        around == TextAround(applied.args.prompt, tokens)
        out == applied.result.prompt
    IN  /\ tokens = <<>> => out = applied.args.prompt
        /\ HasPrefix(out, around[1])
        /\ HasSuffix(out, around[Len(around)])
        /\ OccurInOrder(out, 1, around, 1)

C18_Witness ==
  /\ applied.fn = "resolveRelativePaths"
  /\ applied.args = [prompt |-> " see ./a.go see ", baseDir |-> "/work"]
  /\ applied.result.prompt = " see /work/a.go see "

\* the path has no empty, . or .. element and no separator at its end
Normalized(path) ==
  /\ ~Contains(path, "//")
  /\ ~Contains(path \o "/", "/./")
  /\ ~Contains(path \o "/", "/../")
  /\ path = "/" \/ ~HasSuffix(path, "/")

\* what a token is replaced by: itself when it is an absolute path, else the
\* normalized join of the base directory and the token
Replacement(token, baseDir) ==
  IF HasPrefix(token, "/") THEN token
  ELSE IF baseDir = "" THEN Clean(token)
  ELSE Clean(baseDir \o "/" \o token)

\* the prompt from position p on with its tokens replaced, left to right
RECURSIVE Rebuilt(_, _, _, _)
Rebuilt(s, p, tokens, baseDir) ==
  IF tokens = <<>> THEN Sub(s, p, Len(s))
  ELSE Sub(s, p, tokens[1].from - 1)
         \o Replacement(Sub(s, tokens[1].from, tokens[1].to), baseDir)
         \o Rebuilt(s, tokens[1].to + 1, Tail(tokens), baseDir)

\* C19: with an absolute base directory, resolveRelativePaths replaces each
\* relative path-like token by the normalized join of the base directory and
\* the token, an absolute path without . and .. elements, leaves each token that
\* is an absolute path as it is, and does so for all tokens of the prompt from
\* left to right, looking at no text twice.
C19_TokensResolved ==
  (applied.fn = "resolveRelativePaths" /\ HasPrefix(applied.args.baseDir, "/")) =>
    LET prompt == applied.args.prompt
        tokens == PathTokens(prompt, 1)
    IN  /\ applied.result.prompt = Rebuilt(prompt, 1, tokens, applied.args.baseDir)
        /\ \A k \in 1..Len(tokens) :
             LET token == Sub(prompt, tokens[k].from, tokens[k].to)
                 new == Replacement(token, applied.args.baseDir)
             IN  IF HasPrefix(token, "/") THEN new = token
                 ELSE /\ HasPrefix(new, "/")
                      /\ Normalized(new)
                      /\ Contains(applied.result.prompt, new)

C19_Witness ==
  /\ applied.fn = "resolveRelativePaths"
  /\ applied.args = [prompt |-> "../x/y.json see /abs/f.txt", baseDir |-> "/p/src/../lib/"]
  /\ applied.result.prompt = "/p/x/y.json see /abs/f.txt"

\* the path without the .. elements it starts with
RECURSIVE BelowParents(_)
BelowParents(path) ==
  IF path = ".." THEN ""
  ELSE IF HasPrefix(path, "../") THEN BelowParents(Sub(path, 4, Len(path)))
  ELSE path

\* the last element of a path
FileName(path) ==
  LET elements == SplitOn(path, "/") IN elements[Len(elements)]

\* C20: resolveRelativePaths returns no error, whatever the prompt and the base
\* directory; with the empty base directory each relative token is replaced by
\* its normalized form, and its file name is still in the result.
C20_NeverFails ==
  applied.fn = "resolveRelativePaths" =>
    /\ applied.result.err = NoErr
    /\ applied.args.baseDir = "" =>
         LET prompt == applied.args.prompt
             tokens == PathTokens(prompt, 1)
         IN  /\ applied.result.prompt = Rebuilt(prompt, 1, tokens, "")
             /\ \A k \in 1..Len(tokens) :
                  LET token == Sub(prompt, tokens[k].from, tokens[k].to)
                  IN  ~HasPrefix(token, "/") =>
                        /\ Normalized(BelowParents(Replacement(token, "")))
                        /\ FileName(token) \notin {"", ".", ".."} =>
                             Contains(applied.result.prompt, FileName(token))

C20_Witness ==
  /\ applied.fn = "resolveRelativePaths"
  /\ applied.args = [prompt |-> " see ./a.go", baseDir |-> ""]
  /\ applied.result = [prompt |-> " see a.go", err |-> NoErr]

\* a call of Execute or ExecuteWithTimeout has been followed up to its select
CallApplied == applied.fn \in {"Execute", "ExecuteWithTimeout"}

\* C21 as stated: the prompt is rewritten with resolveRelativePaths exactly
\* when the client has a configured working directory.
C21_RewriteIffConfigured ==
  CallApplied =>
    (Len(applied.result.resolveArgs) > 0 <=> applied.args.config.WorkingDirectory # "")

\* C21: Execute and ExecuteWithTimeout rewrite the prompt with
\* resolveRelativePaths exactly when the client has a configured working
\* directory and os.Getwd succeeds; the base directory of the rewrite is the
\* directory os.Getwd returned, never the configured one; with no configured
\* working directory the prompt reaches the command builder unchanged.
C21_RewriteIffConfiguredAndGetwd ==
  CallApplied =>
    LET call == applied.result
        args == applied.args
    IN  /\ Len(call.resolveArgs) > 0
             <=> (args.config.WorkingDirectory # "" /\ args.getwd.err = NoErr)
        /\ Len(call.resolveArgs) > 0 =>
             /\ call.resolveArgs = <<[prompt |-> args.prompt, baseDir |-> args.getwd.dir]>>
             /\ call.resolvedPrompt
                  = resolveRelativePaths(args.prompt, args.getwd.dir).prompt
        /\ args.config.WorkingDirectory = "" =>
             /\ call.resolvedPrompt = args.prompt
             /\ call.cmdArgs[5] = args.prompt

C21_Witness ==
  /\ applied.fn = "ExecuteWithTimeout"
  /\ applied.args.config.WorkingDirectory = "/tmp"
  /\ applied.args.getwd = [dir |-> "/work", err |-> NoErr]
  /\ applied.args.prompt = "read ./a.go"
  /\ applied.result.cmdArgs[5] = "read /work/a.go"

\* C22: of two calls running at the same time on one client, each has its own
\* child, buffers, timer and completion signal: a step of one call leaves the
\* other call as it is, a child is killed only by the timeout of its own call,
\* and what a call returns follows from its own timer, or from what its own
\* wait task sent and its own stdout.
C22_CallsIndependent ==
  /\ [](\A i \in Callers :
          /\ calls[i].proc = "killed" =>
               (calls[i].chosen = "timer" /\ calls[i].kill = "sent")
          /\ calls[i].kill # "none" =>
               (calls[i].chosen = "timer" /\ calls[i].timer = "fired")
          /\ (Returned(i) /\ calls[i].chosen = "timer") =>
               calls[i].runErr =
                 <<"command timed out after " \o DurationString(RacedDuration(i))>>
          /\ (Returned(i) /\ calls[i].chosen = "done") =>
               /\ calls[i].wt = "finished"
               /\ calls[i].proc = "exited"
               /\ calls[i].err = NoErr <=>
                    (calls[i].wait = NoErr /\ parseGeminiOutput(calls[i].stdout).err = NoErr)
               /\ calls[i].err = NoErr =>
                    calls[i].result = parseGeminiOutput(calls[i].stdout).result)
  /\ [][\A i \in Callers :
          calls'[i] # calls[i] => \A j \in Callers \ {i} : calls'[j] = calls[j]]_vars

C22_Witness ==
  /\ Returned(1)
  /\ calls[1].api = "ExecuteWithTimeout"
  /\ calls[1].chosen = "timer"
  /\ calls[1].kill = "sent"
  /\ calls[2].api = "Execute"
  /\ calls[2].pc = "parked"
  /\ calls[2].proc = "running"
  /\ calls[2].timer = "armed"

\* the clients the constructors make
Constructed == {NewClient} \cup {NewClientWithConfig(config) : config \in Configs}

\* C23: no call of Execute or ExecuteWithTimeout, whatever its outcome, changes
\* the logger, timeout, model or working directory of the client: the timeout
\* argument of ExecuteWithTimeout is raced by that call only, and every call of
\* Execute, a later one too, races the timeout the client was made with.
C23_ClientUnchanged ==
  /\ [][client' = client]_vars
  /\ [](/\ client \in Constructed
        /\ \A i \in Slots :
             /\ (calls[i].api = "Execute" /\ calls[i].prompt # "") =>
                  calls[i].timeout = client.timeout
             /\ (calls[i].api = "ExecuteWithTimeout" /\ calls[i].prompt # "") =>
                  calls[i].timeout = calls[i].arg)

C23_Witness ==
  \E i \in Slots :
    /\ ncalls = 2
    /\ client.timeout = 90
    /\ client.logger = "custom"
    /\ calls[i].api = "Execute"
    /\ Returned(i)
    /\ calls[i].chosen = "timer"
    /\ calls[i].runErr = <<"command timed out after 1m30s">>

\* how many times the call in slot i has started a child process
Starts(i) == Cardinality({k \in 1..Len(calls[i].oscalls) : calls[i].oscalls[k] = "Start"})

\* C24: a call starts a child process at most once, and exactly once when its
\* prompt is not empty and the executable is found; once the call has returned,
\* whatever the failure, it starts nothing more: nothing is retried.
C24_StartsOnce ==
  /\ [](\A i \in Slots :
          /\ Starts(i) <= 1
          /\ calls[i].pc # "idle" =>
               (Starts(i) = 1 <=> (calls[i].prompt # "" /\ calls[i].lookErr = NoErr))
          /\ calls[i].proc # "none" => (Starts(i) = 1 /\ calls[i].startErr = NoErr))
  /\ [][\A i \in Slots :
          (Returned(i) /\ calls'[i].pc # "idle") =>
            /\ calls'[i].oscalls = calls[i].oscalls
            /\ calls'[i].result = calls[i].result
            /\ calls'[i].err = calls[i].err]_vars

C24_Witness ==
  \E i \in Slots :
    /\ Returned(i)
    /\ calls[i].startErr # NoErr
    /\ calls[i].err # NoErr
    /\ Starts(i) = 1
    /\ calls[i].proc = "none"

C26_ResolutionFailureNotFatal ==
  /\ (CallApplied /\ applied.args.config.WorkingDirectory # ""
        /\ applied.args.getwd.err # NoErr) =>
       LET call == applied.result
       IN  /\ Mentions(call.log,
                <<"warn", "Failed to get current directory for path resolution">>)
           /\ call.resolvedPrompt = applied.args.prompt
           /\ call.cmdArgs = <<"gemini", "-m", NewClientWithConfig(applied.args.config).model,
                               "-p", applied.args.prompt>>
           /\ Mentions(call.stages, "build")
           /\ Mentions(call.oscalls, "LookPath")
           /\ applied.args.lookPath.err = NoErr => Mentions(call.oscalls, "Start")
  /\ CallApplied =>
       (\E k \in 1..Len(applied.result.log) : applied.result.log[k][1] = "warn")
         <=> (applied.args.config.WorkingDirectory # "" /\ applied.args.getwd.err # NoErr)

C26_Witness ==
  /\ applied.fn = "Execute"
  /\ applied.args.config.WorkingDirectory = "/tmp"
  /\ applied.args.getwd.err # NoErr
  /\ applied.args.prompt = "read ./a.go"
  /\ applied.result.cmdArgs[5] = "read ./a.go"
  /\ applied.result.pc = "select"

\* the stages every call goes through when nothing fails, without the optional
\* resolve stage and the final return
MainStages == <<"validate", "build", "locate", "dir", "run", "sanitize">>

IsMainStage(stage) == stage \notin {"resolve", "return"}

\* C27: the stages of a call are entered in the order validate, resolve paths,
\* build command, locate executable, determine working directory, run,
\* sanitize, return, none twice; resolve is entered exactly when a working
\* directory is configured; build follows a valid prompt, the working directory
\* a found executable, and the sanitizer is entered only with the stdout bytes
\* of a success outcome of the run stage, never after a failure of the run
\* stage or a timeout.
C27_StageOrder ==
  \A i \in Slots :
    calls[i].pc # "idle" =>
      LET stages == calls[i].stages
          main == SelectSeq(stages, IsMainStage)
          entered(stage) == Mentions(stages, stage)
      IN  /\ Len(main) <= Len(MainStages)
          /\ main = SubSeq(MainStages, 1, Len(main))
          /\ Len(main) >= 1
          /\ \A k \in 1..Len(stages) :
               /\ stages[k] = "resolve" => (k = 2 /\ Len(stages) > 2 /\ stages[3] = "build")
               /\ stages[k] = "return" => (k = Len(stages) /\ Returned(i))
          /\ Returned(i) => stages[Len(stages)] = "return"
          /\ entered("build") <=> calls[i].prompt # ""
          /\ entered("resolve") <=> (calls[i].prompt # "" /\ client.workingDirectory # "")
          /\ entered("dir") <=> (entered("locate") /\ calls[i].lookErr = NoErr)
          /\ entered("run") <=> entered("dir")
          /\ entered("sanitize") <=>
               (Returned(i) /\ entered("run") /\ calls[i].startErr = NoErr
                  /\ calls[i].chosen = "done" /\ calls[i].wait = NoErr)
          /\ entered("sanitize") =>
               /\ calls[i].runErr = NoErr
               /\ calls[i].runOut = calls[i].stdout
               /\ calls[i].parseErr = parseGeminiOutput(calls[i].stdout).err
               /\ calls[i].result = parseGeminiOutput(calls[i].stdout).result

C27_Witness ==
  \E i \in Slots :
    /\ Returned(i)
    /\ calls[i].stages =
         <<"validate", "resolve", "build", "locate", "dir", "run", "sanitize", "return">>
    /\ calls[i].err = NoErr

\* C28: the wait task sends on done once per call and the send never blocks:
\* while the wait task has not sent, the channel of capacity one is empty; once
\* it has sent it sends no more; and a wait task finishes in the end, also the
\* one of a call that has returned a timeout and receives no more, once the
\* killed child has been reaped.
C28_WaitTaskFinishes ==
  /\ [](\A i \in Slots :
          /\ Len(calls[i].done) <= 1
          /\ calls[i].wt = "waiting" => calls[i].done = <<>>)
  /\ [][\A i \in Slots :
          /\ Len(calls'[i].done) > Len(calls[i].done) =>
               (calls[i].wt = "waiting" /\ calls'[i].wt = "finished")
          /\ (calls[i].wt = "finished" /\ calls'[i].pc # "idle") =>
               calls'[i].wt = "finished"]_vars
  /\ \A i \in Slots :
       /\ (calls[i].wt = "waiting") ~> (calls[i].wt = "finished")
       /\ (Returned(i) /\ calls[i].chosen = "timer" /\ calls[i].wt = "waiting")
            ~> (calls[i].wt = "finished" /\ Len(calls[i].done) = 1)

C28_Witness ==
  \E i \in Slots :
    /\ Returned(i)
    /\ calls[i].chosen = "timer"
    /\ calls[i].kill = "sent"
    /\ calls[i].wt = "finished"
    /\ calls[i].done = <<<<"signal: killed">>>>

\* the call in slot i has returned the authentication-failure error
AuthFailureReturned(i) ==
  /\ Returned(i)
  /\ \/ calls[i].runErr = NewError(ErrAuthFailed)
     \/ \E k \in 1..Len(calls[i].err) : calls[i].err[k] = ErrAuthFailed

\* C29: the authentication-failure error is returned only by the branch of the
\* select that took the completion of a failed child: a child that exited
\* successfully gives its stdout as the success output even when that holds an
\* authentication keyword, and neither a timeout nor a start failure is
\* reported as an authentication failure.
C29_AuthFailureOnlyOnFailedCompletion ==
  \A i \in Slots :
    Returned(i) =>
      /\ AuthFailureReturned(i) =>
           /\ calls[i].chosen = "done"
           /\ calls[i].wait # NoErr
           /\ calls[i].startErr = NoErr
           /\ calls[i].kill = "none"
           /\ detectAuthError(calls[i].stdout \o calls[i].stderr)
      /\ (calls[i].chosen = "done" /\ calls[i].wait = NoErr) =>
           /\ ~AuthFailureReturned(i)
           /\ calls[i].runErr = NoErr
           /\ calls[i].runOut = calls[i].stdout
      /\ calls[i].chosen = "timer" => ~AuthFailureReturned(i)
      /\ calls[i].startErr # NoErr => ~AuthFailureReturned(i)

C29_Witness ==
  \E i \in Slots :
    /\ Returned(i)
    /\ calls[i].chosen = "done"
    /\ calls[i].wait = NoErr
    /\ calls[i].stdout = "Unauthorized"
    /\ calls[i].stderr = "denied \n"
    /\ calls[i].runOut = "Unauthorized"
    /\ calls[i].result = "Unauthorized"
    /\ calls[i].err = NoErr

\* C30: ParseGeminiOutput is idempotent on its successful results: when it
\* succeeds on an input with the result r, it succeeds on r and returns r.
C30_ParseIdempotent ==
  (applied.fn = "ParseGeminiOutput" /\ applied.result.err = NoErr) =>
    parseGeminiOutput(applied.result.result) =
      [result |-> applied.result.result, err |-> NoErr]

C30_Witness ==
  /\ applied.fn = "ParseGeminiOutput"
  /\ applied.args = "[info] Token refreshed (2s)\n  indented \r\nHello, world!"
  /\ applied.result = [result |-> "indented \r\nHello, world!", err |-> NoErr]
  /\ parseGeminiOutput("indented \r\nHello, world!").result = "indented \r\nHello, world!"

====
